---- MODULE Spec2Model ----
(***************************************************************************)
(* The DHT client of the light client (src/network/client.rs): a Client    *)
(* handle turns every operation into Commands sent over a bounded mpsc     *)
(* queue to the event loop and awaits the one-shot reply of each.          *)
(*                                                                         *)
(* One behaviour is one call of one Client operation, chosen in Init       *)
(* together with the configuration (parallelism limit, queue capacity) and *)
(* the input list.  The steps of the call are the polls of its futures     *)
(* between two await points; the event loop runs beside it.                *)
(*                                                                         *)
(* An f32 success rate is represented by the exact fraction num/den it is  *)
(* computed from.  A record value or cell content is represented by its    *)
(* length in bytes, the only thing client.rs looks at.                     *)
(*                                                                         *)
(* The sampling pipeline of the light client (src/main.rs) is a second     *)
(* state machine over its own variables: SpecPipeline is the for_each      *)
(* closure over the header subscription beside the reconstruction client   *)
(* thread, SpecCodec one evaluation of calculate_confidence and            *)
(* serialised_confidence, and SpecLive the batch calls of the DHT client   *)
(* under fair scheduling.  Each specification leaves the variables of the  *)
(* others at rest.                                                         *)
(***************************************************************************)
EXTENDS Integers, Sequences, FiniteSets, TLC

\* ---------------------------------------------------------------- bounds
MaxCells == 4        \* longest input list (positions, cells, bootstrap nodes)
MaxLimit == 2        \* largest configured dht_parallelization_limit
MaxCapacity == 2     \* largest capacity of the command queue

\* ------------------------------------------------------------- constants
COMMITMENT_SIZE == 48
CHUNK_SIZE == 32
CellLen == COMMITMENT_SIZE + CHUNK_SIZE

VARIABLES
    op,                         \* the Client operation this behaviour calls
    dht_parallelization_limit,  \* Client.dht_parallelization_limit
    capacity,                   \* capacity of the mpsc command channel
    positions,                  \* the input list of the call
    pc,                         \* where the calling future stands
    ret,                        \* what the call returned
    queue,                      \* commands buffered in the mpsc channel
    waiters,                    \* senders suspended in send().await, FIFO
    closed,                     \* the command receiver has been dropped
    handling,                   \* commands the event loop holds unanswered
    reply,                      \* per sub-operation: its one-shot channel
    sub,                        \* per sub-operation: where its future stands
    res,                        \* per sub-operation: the Result it returned
    cells,                      \* fetch_cells_from_dht: Vec<Option<Cell>>
    chunk,                      \* fetch_cells_from_dht: chunk being joined
    failure_counter,            \* insert_into_dht: the shared failure counter
    sent,                       \* history: every command ever enqueued
    \* ---- the sampling pipeline of main.rs
    feed,                       \* what the header subscription delivers
    app_id,                     \* cfg.app_id
    overflow_checks,            \* build profile: integer overflow panics
    stage,                      \* where the for_each closure stands
    header,                     \* the notification being processed
    count,                      \* verify_proof's count for that header
    conf,                       \* calculate_confidence(count)
    db,                         \* the confidence store: block -> count
    block_queue,                \* ClientMsg buffered in the sync_channel
    block_rx,                   \* the receiving end is still alive
    frames_seen,                \* frames read from the subscription so far
    steps,                      \* history: stages done for this header
    delivered,                  \* history: ClientMsg taken by the consumer
    \* ---- one evaluation of the two support functions of main.rs
    codec_pc,                   \* which function runs next
    block,                      \* serialised_confidence: block (8 bytes)
    verified,                   \* calculate_confidence: count
    factor,                     \* the f64 returned by calculate_confidence
    serialised,                 \* the String serialised_confidence returns
    decoded                     \* what a reader of that String recovers

cfgVars == <<op, dht_parallelization_limit, capacity, positions>>
chanVars == <<queue, waiters, closed, handling, reply, sent>>
callVars == <<pc, ret, sub, res, cells, chunk, failure_counter>>
clientVars == <<cfgVars, chanVars, callVars>>
envVars == <<feed, app_id, overflow_checks>>
pipeVars == <<stage, header, count, conf, db, block_queue, block_rx,
              frames_seen, steps, delivered>>
codecVars == <<codec_pc, block, verified, factor, serialised, decoded>>
mainVars == <<envVars, pipeVars, codecVars>>
vars == <<clientVars, mainVars>>

\* ---------------------------------------------------------------- values
Ops == {"start_listening", "add_address", "events_stream", "bootstrap",
        "fetch_cells_from_dht", "insert_into_dht"}

Pending == [tag |-> "Pending"]
Empty == [tag |-> "Empty"]
Dropped == [tag |-> "Dropped"]
Ok(v) == [tag |-> "Ok", val |-> v]
Err(k) == [tag |-> "Err", kind |-> k]
Panicked == [tag |-> "Panic"]
EventStream == [tag |-> "ReceiverStream"]
Rate(n, d) == [tag |-> "f32", num |-> n, den |-> d]

IsOk(r) == r.tag = "Ok"
IsErr(r) == r.tag = "Err"

\* Position k of the input list: (row, col) in a matrix two columns wide.
Position(k) == [row |-> (k - 1) \div 2, col |-> (k - 1) % 2]
Cell(p, c) == [position |-> p, content |-> c]

N == Len(positions)
\* Sub-operations (one command round trip each): one per input element,
\* plus one for the command that follows the list (Bootstrap).
SubIds == 1..(MaxCells + 1)

Min(a, b) == IF a < b THEN a ELSE b

\* ------------------------------------------------------- the command sent
\* The Command variant each sub-operation sends (client.rs 244-269).
CommandType(i) ==
    CASE op = "start_listening" -> "StartListening"
      [] op = "add_address" -> "AddAddress"
      [] op = "events_stream" -> "Stream"
      [] op = "bootstrap" -> IF i <= N THEN "AddAddress" ELSE "Bootstrap"
      [] op = "fetch_cells_from_dht" -> "GetKadRecord"
      [] op = "insert_into_dht" -> "PutKadRecord"

Command(i) == [type |-> CommandType(i), id |-> i]

\* Every variant but Stream carries a one-shot reply sender.
HasReplySender(c) == c.type # "Stream"

\* ------------------------------------------------ fetch_cell_from_dht
\* try_into::<[u8; COMMITMENT_SIZE + CHUNK_SIZE]>() of a record value.
\* Variant: a conversion that also takes shorter values.
TryIntoContentLenient(len) == len <= CellLen

TryIntoContent(len) == len = CellLen

\* Variant: a query error is taken for a missing record.
fetch_cell_from_dht_soft(i, r) ==
    IF IsErr(r) \/ r.val = <<>> THEN Ok(<<>>)
    ELSE IF TryIntoContent(Head(r.val))
         THEN Ok(<<Cell(positions[i], Head(r.val))>>)
         ELSE Err("convert")

\* fetch_cell_from_dht's result for position i from what get_kad_record
\* returned: an error is passed on, an empty list is Ok(None), otherwise the
\* first record alone is converted.
fetch_cell_from_dht(i, r) ==
    IF IsErr(r) THEN r
    ELSE IF r.val = <<>> THEN Ok(<<>>)
    ELSE IF TryIntoContent(Head(r.val))
         THEN Ok(<<Cell(positions[i], Head(r.val))>>)
         ELSE Err("convert")

\* ---------------------------------------------- insert_into_dht's counter
\* Variant: only an error answered by the event loop is counted.
CountFailureReplyOnly(r) == IF IsErr(r) /\ r.kind = "reply" THEN 1 ELSE 0

\* `if let Err(error) = ...put_kad_record(..).await { *counter += 1 }`
CountFailure(r) == IF IsErr(r) THEN 1 ELSE 0

\* ------------------------------------------------------- bootstrap's `?`
\* Variant: the result of add_address is not looked at.
BootstrapReturnsAfterLastOnly(i, r) == i = N + 1

\* bootstrap returns with r when an add_address fails
\* (`self.add_address(..).await?`) and with the answer to Bootstrap.
BootstrapReturns(i, r) == IsErr(r) \/ i = N + 1

\* ------------------------------------------- a sub-operation has returned
\* Sub-operation i has returned r to the code that awaited it; that code runs
\* on to its next await.  pcCont is where the call stands if it goes on.
Completed(i, r, pcCont) ==
    /\ sub' = [sub EXCEPT ![i] = "done"]
    /\ CASE op \in {"start_listening", "add_address"} ->
              /\ res' = [res EXCEPT ![i] = r]
              /\ pc' = "done"
              /\ ret' = r
              /\ UNCHANGED failure_counter
         [] op = "events_stream" ->
              \* .expect("Command receiver should not be dropped.")
              /\ res' = [res EXCEPT ![i] = r]
              /\ pc' = "panicked"
              /\ ret' = Panicked
              /\ UNCHANGED failure_counter
         [] op = "bootstrap" ->
              /\ res' = [res EXCEPT ![i] = r]
              /\ IF BootstrapReturns(i, r)
                 THEN pc' = "done" /\ ret' = r
                 ELSE pc' = "loop" /\ UNCHANGED ret
              /\ UNCHANGED failure_counter
         [] op = "fetch_cells_from_dht" ->
              /\ res' = [res EXCEPT ![i] = fetch_cell_from_dht(i, r)]
              /\ pc' = pcCont
              /\ UNCHANGED <<ret, failure_counter>>
         [] op = "insert_into_dht" ->
              /\ res' = [res EXCEPT ![i] = r]
              /\ failure_counter' = failure_counter + CountFailure(r)
              /\ pc' = pcCont
              /\ UNCHANGED ret

\* The command of sub-operation i has been accepted by the channel.
Enqueued(i, pcCont) ==
    IF HasReplySender(Command(i))
    THEN /\ sub' = [sub EXCEPT ![i] = "waiting"]       \* receiver.await
         /\ pc' = pcCont
         /\ UNCHANGED <<ret, res, failure_counter>>
    ELSE \* events_stream returns as soon as the command is sent
         /\ sub' = [sub EXCEPT ![i] = "done"]
         /\ res' = [res EXCEPT ![i] = Ok(<<>>)]
         /\ pc' = "done"
         /\ ret' = EventStream
         /\ UNCHANGED failure_counter

\* ------------------------------------------------ self.sender.send(..).await
\* Variant: a channel that never fills.
SlotFreeUnbounded == TRUE

\* A slot of the bounded channel is free for a sender that is not queued
\* behind earlier suspended senders.
SlotFree == Len(queue) < capacity

\* First poll of `self.sender.send(command).await` by sub-operation i: it
\* fails when the receiver is gone, enqueues when a slot is free, and
\* otherwise suspends the sender behind the earlier ones.
Send(i, pcCont) ==
    IF closed
    THEN /\ Completed(i, Err("send"), pcCont)
         /\ UNCHANGED chanVars
    ELSE IF SlotFree /\ waiters = <<>>
    THEN /\ queue' = Append(queue, Command(i))
         /\ sent' = Append(sent, Command(i))
         /\ Enqueued(i, pcCont)
         /\ UNCHANGED <<waiters, closed, handling, reply>>
    ELSE /\ waiters' = Append(waiters, i)
         /\ sub' = [sub EXCEPT ![i] = "sending"]
         /\ pc' = pcCont
         /\ UNCHANGED <<ret, res, failure_counter>>
         /\ UNCHANGED <<queue, closed, handling, reply, sent>>

\* A suspended send is woken because a slot has been freed: senders are
\* served in the order they suspended.
send_resume(i) ==
    /\ sub[i] = "sending"
    /\ ~closed
    /\ waiters # <<>> /\ Head(waiters) = i
    /\ SlotFree
    /\ waiters' = Tail(waiters)
    /\ queue' = Append(queue, Command(i))
    /\ sent' = Append(sent, Command(i))
    /\ Enqueued(i, pc)
    /\ UNCHANGED <<closed, handling, reply>>
    /\ UNCHANGED <<mainVars, cfgVars, cells, chunk>>

\* A suspended send is woken because the receiver has been dropped.
send_closed(i) ==
    /\ sub[i] = "sending"
    /\ closed
    /\ waiters' = SelectSeq(waiters, LAMBDA w : w # i)
    /\ Completed(i, Err("send"), pc)
    /\ UNCHANGED <<queue, closed, handling, reply, sent>>
    /\ UNCHANGED <<mainVars, cfgVars, cells, chunk>>

\* `receiver.await.context("Sender not to be dropped.")?`: the one-shot
\* channel of sub-operation i resolves with the reply or with RecvError.
receiver_await(i) ==
    /\ sub[i] = "waiting"
    /\ reply[i].tag # "Empty"
    /\ Completed(i, IF reply[i].tag = "Dropped" THEN Err("recv") ELSE reply[i], pc)
    /\ UNCHANGED <<mainVars, cfgVars, chanVars, cells, chunk>>

\* ------------------------------------ start_listening, add_address, events_stream
start_listening ==
    /\ op = "start_listening" /\ pc = "start"
    /\ Send(1, "await")
    /\ UNCHANGED <<mainVars, cfgVars, cells, chunk>>

add_address ==
    /\ op = "add_address" /\ pc = "start"
    /\ Send(1, "await")
    /\ UNCHANGED <<mainVars, cfgVars, cells, chunk>>

events_stream ==
    /\ op = "events_stream" /\ pc = "start"
    /\ Send(1, "await")
    /\ UNCHANGED <<mainVars, cfgVars, cells, chunk>>

\* -------------------------------------------------------------- bootstrap
\* The sub-operations of the call that are started and not yet returned.
InFlight == {i \in SubIds : sub[i] \in {"sending", "waiting"}}

Returned == {i \in SubIds : sub[i] = "done"}

\* One turn of bootstrap: add_address of the next node of the list, or, the
\* list exhausted, the Bootstrap command.  An add_address error has already
\* ended the call (the `?` of line 96, in Completed).
bootstrap ==
    /\ op = "bootstrap" /\ pc \in {"start", "loop"}
    /\ LET i == Cardinality(Returned) + 1
       IN  Send(i, "await")
    /\ UNCHANGED <<mainVars, cfgVars, cells, chunk>>

\* --------------------------------------------------- fetch_cells_from_dht
\* positions.chunks(limit): the indices of the k-th chunk, k = 1, 2, ...
\* Variant: chunks one element too long.
ChunkIdsOversized(k) ==
    ((k - 1) * dht_parallelization_limit + 1)
        .. Min(k * dht_parallelization_limit + 1, N)

ChunkIds(k) ==
    ((k - 1) * dht_parallelization_limit + 1)
        .. Min(k * dht_parallelization_limit, N)

NumChunks ==
    (N + dht_parallelization_limit - 1) \div dht_parallelization_limit

FetchOk(fetched, unfetched) ==
    [tag |-> "Ok", fetched |-> fetched, unfetched |-> unfetched]

\* cells.into_iter().flatten().collect()
RECURSIVE Fetched(_)
Fetched(cs) == IF cs = <<>> THEN <<>> ELSE Head(cs) \o Fetched(Tail(cs))

\* Variant: the is_none filter left out.
RECURSIVE UnfetchedKeepAll(_, _)
UnfetchedKeepAll(cs, ps) ==
    IF cs = <<>> \/ ps = <<>> THEN <<>>
    ELSE <<Head(ps)>> \o UnfetchedKeepAll(Tail(cs), Tail(ps))

\* cells.iter().zip(positions).filter(|(cell, _)| cell.is_none())
\*      .map(|(_, position)| position.clone()).collect()
RECURSIVE Unfetched(_, _)
Unfetched(cs, ps) ==
    IF cs = <<>> \/ ps = <<>> THEN <<>>
    ELSE (IF Head(cs) = <<>> THEN <<Head(ps)>> ELSE <<>>)
             \o Unfetched(Tail(cs), Tail(ps))

\* Entry of fetch_cells_from_dht up to the first join_all: chunks(0) panics,
\* an empty list has no chunk and the call returns at once.
fetch_cells_from_dht ==
    /\ op = "fetch_cells_from_dht" /\ pc = "start"
    /\ IF dht_parallelization_limit = 0
       THEN pc' = "panicked" /\ ret' = Panicked /\ UNCHANGED chunk
       ELSE IF N = 0
       THEN pc' = "done" /\ ret' = FetchOk(<<>>, <<>>) /\ UNCHANGED chunk
       ELSE pc' = "join" /\ chunk' = 1 /\ UNCHANGED ret
    /\ UNCHANGED <<mainVars, cfgVars, chanVars, sub, res, cells, failure_counter>>

\* First poll by join_all of the future of position i of the current chunk,
\* in list order: fetch_cell_from_dht up to the send of its GetKadRecord.
get_kad_record(i) ==
    /\ op = "fetch_cells_from_dht" /\ pc = "join"
    /\ i \in ChunkIds(chunk)
    /\ sub[i] = "idle"
    /\ \A j \in ChunkIds(chunk) : j < i => sub[j] # "idle"
    /\ Send(i, pc)
    /\ UNCHANGED <<mainVars, cfgVars, cells, chunk>>

\* Variant: a join that resolves on the first error (try_join_all).
ChunkJoinedOnFirstError(k) ==
    \/ \A i \in ChunkIds(k) : sub[i] = "done"
    \/ \E i \in ChunkIds(k) : sub[i] = "done" /\ IsErr(res[i])

\* join_all resolves when every future of the chunk has returned.
ChunkJoined(k) == \A i \in ChunkIds(k) : sub[i] = "done"

\* join_all(..).await resolves: the chunk's results are collected into a
\* Result (the first error in list order ends the call), the cells are
\* appended, and the loop goes on to the next chunk or to the return.
join_all ==
    /\ op = "fetch_cells_from_dht" /\ pc = "join"
    /\ ChunkJoined(chunk)
    /\ LET ids == ChunkIds(chunk)
           errs == {i \in ids : ~IsOk(res[i])}
           first == CHOOSE i \in errs : \A j \in errs : i <= j
           size == Cardinality(ids)
           base == (chunk - 1) * dht_parallelization_limit
           extended == cells \o [j \in 1..size |-> res[base + j].val]
       IN  IF errs # {}
           THEN /\ pc' = "done"
                /\ ret' = res[first]
                /\ UNCHANGED <<cells, chunk>>
           ELSE /\ cells' = extended
                /\ IF chunk < NumChunks
                   THEN chunk' = chunk + 1 /\ UNCHANGED <<pc, ret>>
                   ELSE /\ pc' = "done"
                        /\ ret' = FetchOk(Fetched(extended),
                                          Unfetched(extended, positions))
                        /\ UNCHANGED chunk
    /\ UNCHANGED <<mainVars, cfgVars, chanVars, sub, res, failure_counter>>

\* -------------------------------------------------------- insert_into_dht
F32One == Rate(1, 1)

\* (1.0 - (counter as f32 / cells.len() as f32)) as f32
SuccessRate(counter, len) == Rate(len - counter, len)

insert_into_dht ==
    /\ op = "insert_into_dht" /\ pc = "start"
    /\ IF N = 0
       THEN pc' = "done" /\ ret' = F32One
       ELSE pc' = "for_each" /\ UNCHANGED ret
    /\ UNCHANGED <<mainVars, cfgVars, chanVars, sub, res, cells, chunk, failure_counter>>

\* Variant: a new future starts only when none is running.
HasFreeWorkerChunked == InFlight = {}

\* Variant: one worker less than the limit.
HasFreeWorkerBelowLimit ==
    \/ dht_parallelization_limit = 0
    \/ Cardinality(InFlight) + 1 < dht_parallelization_limit

\* for_each_concurrent(stream, limit, f) runs at most `limit` futures at a
\* time; a limit of zero means no limit.
HasFreeWorker ==
    \/ dht_parallelization_limit = 0
    \/ Cardinality(InFlight) < dht_parallelization_limit

\* Variant: a stream that ends at the first failed put.
StreamStopsOnFailure(i) ==
    /\ i \in 1..N
    /\ sub[i] = "idle"
    /\ \A j \in 1..(i - 1) : sub[j] # "idle" /\ ~IsErr(res[j])

\* Cell i is the next element of stream::iter(cell_tuples).
NextOfStream(i) ==
    /\ i \in 1..N
    /\ sub[i] = "idle"
    /\ \A j \in 1..(i - 1) : sub[j] # "idle"

\* for_each_concurrent takes the next cell of the stream into a free slot and
\* polls its future: put_kad_record up to the send of its PutKadRecord.
put_kad_record(i) ==
    /\ op = "insert_into_dht" /\ pc = "for_each"
    /\ NextOfStream(i)
    /\ HasFreeWorker
    /\ Send(i, pc)
    /\ UNCHANGED <<mainVars, cfgVars, cells, chunk>>

\* for_each_concurrent resolves when the stream is exhausted and no future
\* is left; the call returns the success rate.
insert_into_dht_return ==
    /\ op = "insert_into_dht" /\ pc = "for_each"
    /\ ~\E i \in SubIds : NextOfStream(i)
    /\ InFlight = {}
    /\ pc' = "done"
    /\ ret' = SuccessRate(failure_counter, N)
    /\ UNCHANGED <<mainVars, cfgVars, chanVars, sub, res, cells, chunk, failure_counter>>

\* --------------------------------------------------------- the event loop
MaxRecords == 2

\* Lengths a record value found in the DHT may have.
ValueLens == {CellLen - 1, CellLen}

\* The record lists a GetKadRecord may be answered with.
RecordLists ==
    {rs \in UNION {[1..n -> ValueLens] : n \in 0..MaxRecords} :
        \A a, b \in DOMAIN rs : a # b => rs[a] # rs[b]}

Replies(type) ==
    IF type = "GetKadRecord"
    THEN {Ok(rs) : rs \in RecordLists} \cup {Err("reply")}
    ELSE {Ok(<<>>), Err("reply")}

\* The event loop takes the next command off the queue.
event_loop_recv ==
    /\ ~closed
    /\ queue # <<>>
    /\ queue' = Tail(queue)
    /\ handling' = IF HasReplySender(Head(queue))
                   THEN handling \cup {Head(queue).id}
                   ELSE handling
    /\ UNCHANGED <<waiters, closed, reply, sent>>
    /\ UNCHANGED <<mainVars, cfgVars, callVars>>

\* The event loop answers a command on its one-shot sender.
event_loop_reply(i) ==
    /\ i \in handling
    /\ \E r \in Replies(Command(i).type) : reply' = [reply EXCEPT ![i] = r]
    /\ handling' = handling \ {i}
    /\ UNCHANGED <<queue, waiters, closed, sent>>
    /\ UNCHANGED <<mainVars, cfgVars, callVars>>

\* The event loop drops a one-shot sender without answering.
event_loop_drop_sender(i) ==
    /\ i \in handling
    /\ reply' = [reply EXCEPT ![i] = Dropped]
    /\ handling' = handling \ {i}
    /\ UNCHANGED <<queue, waiters, closed, sent>>
    /\ UNCHANGED <<mainVars, cfgVars, callVars>>

\* The event loop ends: the command receiver is dropped, and with it the
\* commands still queued and the one-shot senders the loop still holds.
event_loop_exit ==
    /\ ~closed
    /\ closed' = TRUE
    /\ queue' = <<>>
    /\ handling' = {}
    /\ reply' = [i \in SubIds |->
                    IF \/ i \in handling
                       \/ \E k \in 1..Len(queue) :
                             queue[k].id = i /\ HasReplySender(queue[k])
                    THEN Dropped ELSE reply[i]]
    /\ UNCHANGED <<waiters, sent>>
    /\ UNCHANGED <<mainVars, cfgVars, callVars>>

\* ----------------------------------------------------------- specification
\* The input lists: the first n positions of the matrix, and the same list
\* with its last element repeating its first.
InputLists ==
    {[k \in 1..n |-> Position(k)] : n \in 0..MaxCells}
        \cup {[k \in 1..n |-> IF k = n THEN Position(1) ELSE Position(k)] :
                 n \in 2..MaxCells}

\* The state of main.rs while only the DHT client is looked at.
PipeAtRest ==
    /\ stage = "idle" /\ header = <<>> /\ count = 0 /\ conf = <<>>
    /\ db = {} /\ block_queue = <<>> /\ block_rx = TRUE
    /\ frames_seen = 0 /\ steps = <<>> /\ delivered = <<>>

CodecAtRest ==
    /\ codec_pc = "done" /\ block = <<>> /\ verified = 0
    /\ factor = <<>> /\ serialised = <<>> /\ decoded = <<>>

MainAtRest ==
    /\ feed = "none" /\ app_id = 0 /\ overflow_checks = FALSE
    /\ PipeAtRest
    /\ CodecAtRest

\* Client::new: nothing sent, nothing awaited.
ClientNew ==
    /\ pc = "start"
    /\ ret = Pending
    /\ queue = <<>>
    /\ waiters = <<>>
    /\ closed = FALSE
    /\ handling = {}
    /\ reply = [i \in SubIds |-> Empty]
    /\ sub = [i \in SubIds |-> "idle"]
    /\ res = [i \in SubIds |-> Pending]
    /\ cells = <<>>
    /\ chunk = 0
    /\ failure_counter = 0
    /\ sent = <<>>

\* The state of the DHT client while only main.rs is looked at.
ClientAtRest ==
    /\ op = "start_listening" /\ dht_parallelization_limit = 1
    /\ capacity = 1 /\ positions = <<>>
    /\ ClientNew

Init ==
    /\ MainAtRest
    /\ op \in Ops
    /\ dht_parallelization_limit \in 0..MaxLimit
    /\ capacity \in 1..MaxCapacity
    /\ positions \in InputLists
    /\ op \in {"start_listening", "add_address", "events_stream"}
          => positions = <<>>
    /\ ClientNew

Next ==
    \/ start_listening
    \/ add_address
    \/ events_stream
    \/ bootstrap
    \/ fetch_cells_from_dht
    \/ \E i \in SubIds : get_kad_record(i)
    \/ join_all
    \/ insert_into_dht
    \/ \E i \in SubIds : put_kad_record(i)
    \/ insert_into_dht_return
    \/ \E i \in SubIds : send_resume(i)
    \/ \E i \in SubIds : send_closed(i)
    \/ \E i \in SubIds : receiver_await(i)
    \/ event_loop_recv
    \/ \E i \in SubIds : event_loop_reply(i)
    \/ \E i \in SubIds : event_loop_drop_sender(i)
    \/ event_loop_exit

Spec == Init /\ [][Next]_vars

\* ==================================================== main.rs: numbers
\* An unsigned integer of any width (u64, BigUint) is the sequence of its
\* base-256 digits, least significant first, without leading zero digits.
\* An f64 is the exact dyadic fraction m / 2^e it stands for, or -inf.
Byte == 256

RECURSIVE Normalize(_)
Normalize(a) ==
    IF a = <<>> \/ a[Len(a)] # 0 THEN a
    ELSE Normalize(SubSeq(a, 1, Len(a) - 1))

RECURSIVE FromNat(_)
FromNat(n) == IF n = 0 THEN <<>> ELSE <<n % Byte>> \o FromNat(n \div Byte)

RECURSIVE ToNat(_)
ToNat(a) == IF a = <<>> THEN 0 ELSE a[1] + Byte * ToNat(Tail(a))

Digit(a, k) == IF k <= Len(a) THEN a[k] ELSE 0

RECURSIVE AddCarry(_, _, _)
AddCarry(a, b, c) ==
    IF a = <<>> /\ b = <<>> THEN FromNat(c)
    ELSE LET t == Digit(a, 1) + Digit(b, 1) + c
         IN <<t % Byte>> \o AddCarry(IF a = <<>> THEN a ELSE Tail(a),
                                     IF b = <<>> THEN b ELSE Tail(b),
                                     t \div Byte)

BigAdd(a, b) == AddCarry(a, b, 0)

\* a - b for a >= b.
RECURSIVE SubBorrow(_, _, _)
SubBorrow(a, b, c) ==
    IF a = <<>> THEN <<>>
    ELSE LET t == a[1] - Digit(b, 1) - c
         IN <<t % Byte>> \o SubBorrow(Tail(a),
                                      IF b = <<>> THEN b ELSE Tail(b),
                                      IF t < 0 THEN 1 ELSE 0)

BigSub(a, b) == Normalize(SubBorrow(a, b, 0))

\* a * k for a machine-size k (k <= 2^22).
RECURSIVE MulCarry(_, _, _)
MulCarry(a, k, c) ==
    IF a = <<>> THEN FromNat(c)
    ELSE LET t == a[1] * k + c
         IN <<t % Byte>> \o MulCarry(Tail(a), k, t \div Byte)

BigMulSmall(a, k) == Normalize(MulCarry(a, k, 0))

\* Quotient and remainder of a by a machine-size k.
RECURSIVE DivRem(_, _)
DivRem(a, k) ==
    IF a = <<>> THEN [q |-> <<>>, r |-> 0]
    ELSE LET hi == DivRem(Tail(a), k)
             cur == hi.r * Byte + a[1]
         IN [q |-> <<cur \div k>> \o hi.q, r |-> cur % k]

BigDivSmall(a, k) == Normalize(DivRem(a, k).q)
BigModSmall(a, k) == DivRem(a, k).r

RECURSIVE BigLess(_, _)
BigLess(a, b) ==
    IF Len(a) # Len(b) THEN Len(a) < Len(b)
    ELSE IF a = <<>> THEN FALSE
    ELSE IF a[Len(a)] # b[Len(b)] THEN a[Len(a)] < b[Len(b)]
    ELSE BigLess(Normalize(SubSeq(a, 1, Len(a) - 1)),
                 Normalize(SubSeq(b, 1, Len(b) - 1)))

RECURSIVE Pow2Small(_)
Pow2Small(n) == IF n = 0 THEN 1 ELSE 2 * Pow2Small(n - 1)

\* a << n
Shl(a, n) ==
    LET hi == BigMulSmall(a, Pow2Small(n % 8))
    IN IF hi = <<>> THEN <<>> ELSE [k \in 1..(n \div 8) |-> 0] \o hi

\* a >> n
Shr(a, n) ==
    IF Len(a) <= n \div 8 THEN <<>>
    ELSE BigDivSmall(SubSeq(a, n \div 8 + 1, Len(a)), Pow2Small(n % 8))

\* a & (2^32 - 1)
Low32(a) == Normalize(SubSeq(a, 1, IF Len(a) < 4 THEN Len(a) ELSE 4))

RECURSIVE ByteOr(_, _)
ByteOr(x, y) ==
    IF x = 0 THEN y
    ELSE IF y = 0 THEN x
    ELSE (IF x % 2 = 1 \/ y % 2 = 1 THEN 1 ELSE 0)
             + 2 * ByteOr(x \div 2, y \div 2)

\* a | b
BitOr(a, b) ==
    [k \in 1..(IF Len(a) < Len(b) THEN Len(b) ELSE Len(a)) |->
        ByteOr(Digit(a, k), Digit(b, k))]

Pow2(n) == Shl(<<1>>, n)

U64Max == [k \in 1..8 |-> 255]

\* ---- f64
Finite(m, e) == [tag |-> "finite", m |-> m, e |-> e]
NegInf == [tag |-> "-inf"]

\* x > n for an f64 x and a small integer n.
F64Greater(x, n) ==
    CASE x.tag = "-inf" -> FALSE
      [] x.tag = "+inf" -> TRUE
      [] OTHER -> BigLess(Shl(FromNat(n), x.e), x.m)

\* x < y for two f64.
F64Less(x, y) ==
    CASE x.tag = "+inf" \/ y.tag = "-inf" -> FALSE
      [] x.tag = "-inf" \/ y.tag = "+inf" -> TRUE
      [] OTHER -> BigLess(Shl(x.m, y.e), Shl(y.m, x.e))

\* ---- decimal strings
DecimalDigits == <<"0", "1", "2", "3", "4", "5", "6", "7", "8", "9">>

RECURSIVE ToDecimal(_)
ToDecimal(a) ==
    IF a = <<>> THEN <<>>
    ELSE ToDecimal(BigDivSmall(a, 10))
             \o <<DecimalDigits[BigModSmall(a, 10) + 1]>>

\* BigUint::to_str_radix(10)
to_str_radix10(a) == IF a = <<>> THEN <<"0">> ELSE ToDecimal(a)

\* ========================================= main.rs: the support functions
MaxCount == 33       \* largest verified-sample count looked at

\* fn calculate_confidence(count: u32) -> f64 (main.rs 163-165):
\*     100f64 * (1f64 - 1f64 / 2u32.pow(count) as f64)
\* 2u32.pow(count) overflows u32 from count = 32 on: the build panics with
\* overflow checks and wraps to 0 without them, and then 1/0.0 = +inf,
\* 1 - inf = -inf, 100 * -inf = -inf.  Below that every operation is exact:
\* 100 * (2^count - 1) < 2^53.
calculate_confidence(cnt) ==
    LET p == Pow2(cnt)
        wrapped == Low32(p)
    IN IF p # wrapped /\ overflow_checks THEN Panicked
       ELSE IF wrapped = <<>> THEN NegInf
       ELSE Finite(BigMulSmall(BigSub(wrapped, <<1>>), 100), cnt)

\* (10f64.powi(7) * factor) as u64: a saturating cast of the product, which
\* is exact for every finite value of calculate_confidence
\* (10^9 * (2^count - 1) < 2^53 * 2^count for count <= 31).
ScaledFactor(f) ==
    CASE f.tag = "-inf" -> <<>>
      [] f.tag = "+inf" -> U64Max
      [] OTHER ->
          LET fl == Shr(BigMulSmall(BigMulSmall(f.m, 10000), 1000), f.e)
          IN IF BigLess(U64Max, fl) THEN U64Max ELSE fl

\* fn serialised_confidence(block: u64, factor: f64) -> String
\* (main.rs 167-172).
\* Variant: the block is shifted by three bytes only.
serialised_confidence_shl24(blk, f) ==
    to_str_radix10(BitOr(Shl(blk, 24), ScaledFactor(f)))

serialised_confidence(blk, f) ==
    to_str_radix10(BitOr(Shl(blk, 32), ScaledFactor(f)))

\* ---- the reader of a serialised confidence
DigitValue(ch) == CHOOSE d \in 0..9 : DecimalDigits[d + 1] = ch

\* Digit by digit from the left; every intermediate value is computed
\* before the next digit is read.
RECURSIVE ParseFrom(_, _)
ParseFrom(str, acc) ==
    IF str = <<>> THEN acc
    ELSE LET nxt == BigAdd(BigMulSmall(acc, 10), FromNat(DigitValue(str[1])))
         IN IF Len(nxt) >= 0 THEN ParseFrom(Tail(str), nxt) ELSE <<>>

ParseDecimal(str) == ParseFrom(str, <<>>)

Decode(str) ==
    LET n == ParseDecimal(str)
    IN [block |-> Shr(n, 32), factor |-> Low32(n)]

\* ---- one evaluation: confidence, serialisation, reading back
\* Block numbers over the whole u64 range.
SampleBlocks ==
    {<<>>, <<1>>, <<42>>, <<255, 255, 255, 255>>, <<0, 0, 0, 0, 1>>,
     <<21, 205, 91, 7, 0, 0, 0, 128>>, U64Max}

call_calculate_confidence ==
    /\ codec_pc = "calculate_confidence"
    /\ LET r == calculate_confidence(verified)
       IN IF r = Panicked
          THEN codec_pc' = "panicked" /\ UNCHANGED factor
          ELSE codec_pc' = "serialised_confidence" /\ factor' = r
    /\ UNCHANGED <<clientVars, envVars, pipeVars,
                   block, verified, serialised, decoded>>

call_serialised_confidence ==
    /\ codec_pc = "serialised_confidence"
    /\ serialised' = serialised_confidence(block, factor)
    /\ codec_pc' = "decode"
    /\ UNCHANGED <<clientVars, envVars, pipeVars,
                   block, verified, factor, decoded>>

decode ==
    /\ codec_pc = "decode"
    /\ decoded' = Decode(serialised)
    /\ codec_pc' = "done"
    /\ UNCHANGED <<clientVars, envVars, pipeVars,
                   block, verified, factor, serialised>>

InitCodec ==
    /\ ClientAtRest
    /\ feed = "none" /\ app_id = 0 /\ overflow_checks \in BOOLEAN
    /\ PipeAtRest
    /\ codec_pc = "calculate_confidence"
    /\ block \in SampleBlocks
    /\ verified \in 0..MaxCount
    /\ factor = <<>> /\ serialised = <<>> /\ decoded = <<>>

NextCodec ==
    \/ call_calculate_confidence
    \/ call_serialised_confidence
    \/ decode

SpecCodec == InitCodec /\ [][NextCodec]_vars

\* ============================================ main.rs: the header stream
\* A String is the sequence of its characters.
HexDigits == <<"0", "1", "2", "3", "4", "5", "6", "7", "8", "9",
               "a", "b", "c", "d", "e", "f">>

\* raw.trim_start_matches("0x"): every leading repetition is removed.
RECURSIVE trim_start_matches_0x(_)
trim_start_matches_0x(raw) ==
    IF Len(raw) >= 2 /\ raw[1] = "0" /\ raw[2] = "x"
    THEN trim_start_matches_0x(SubSeq(raw, 3, Len(raw)))
    ELSE raw

\* char::to_digit(16): the value of a hexadecimal digit, 16 for none.
ToDigit16(ch) ==
    IF \E d \in 1..16 : HexDigits[d] = ch
    THEN (CHOOSE d \in 1..16 : HexDigits[d] = ch) - 1
    ELSE 16

RECURSIVE HexValue(_, _)
HexValue(digits, acc) ==
    IF digits = <<>> THEN acc
    ELSE LET nxt == BigAdd(Shl(acc, 4), FromNat(ToDigit16(digits[1])))
         IN IF Len(nxt) >= 0 THEN HexValue(Tail(digits), nxt) ELSE <<>>

\* u64::from_str_radix(src, 16): an empty string, a lone sign, a character
\* that is no digit and a value of more than 64 bits are errors; one leading
\* "+" is accepted.
from_str_radix16(src) ==
    IF src = <<>> THEN Err("Empty")
    ELSE IF src = <<"+">> \/ src = <<"-">> THEN Err("InvalidDigit")
    ELSE LET digits == IF src[1] = "+" THEN Tail(src) ELSE src
         IN IF \E k \in DOMAIN digits : ToDigit16(digits[k]) = 16
            THEN Err("InvalidDigit")
            ELSE LET v == HexValue(digits, <<>>)
                 IN IF BigLess(U64Max, v) THEN Err("PosOverflow") ELSE Ok(v)

\* The block number of a header as main.rs 74-78 reads it, before unwrap.
ParseNumber(number) == from_str_radix16(trim_start_matches_0x(number))

RECURSIVE ToHex(_)
ToHex(n) ==
    IF n = 0 THEN <<>> ELSE ToHex(n \div 16) \o <<HexDigits[(n % 16) + 1]>>

\* The block number string a node sends for block n.
HexString(n) == <<"0", "x">> \o (IF n = 0 THEN <<"0">> ELSE ToHex(n))

\* ---------------------------------------------------------------- bounds
MaxFrames == 3       \* frames of a mixed header stream
MaxBacklog == 2      \* headers a steady stream sends beyond the capacity

\* sync_channel::<types::ClientMsg>(1 << 7)
ChannelCapacity == 128

\* ------------------------------------------------ what the node delivers
\* A frame of the subscription: a websocket error, a text that is no header
\* notification, or a header with its number string, the dimensions of the
\* matrix and the app-data index.
Frame(kind, number, rows, cols, app_index) ==
    [kind |-> kind, number |-> number, rows |-> rows, cols |-> cols,
     app_index |-> app_index]

NumberStrings ==
    {HexString(1), HexString(2), <<"2">>, <<"0", "x", "0", "x", "1">>,
     <<"0", "x">>, <<"0", "x", "g">>,
     <<"0", "x", "1">> \o [k \in 1..16 |-> "0"]}

Frames ==
    {Frame("ws_error", <<>>, 0, 0, <<>>), Frame("not_header", <<>>, 0, 0, <<>>)}
        \cup {Frame("header", n, 2, 4, a) :
                 n \in NumberStrings, a \in {<<>>, <<1>>}}

\* Counts verify_proof may return; 3 and 4 lie on the two sides of 92 %.
Counts == {0, 3, 4, 32}

\* A mixed stream delivers any frames, and the RPC node may fail; a steady
\* stream delivers the headers of blocks 1, 2, 3, ... of a healthy node.
FramesOffered ==
    IF feed = "steady"
    THEN {Frame("header", HexString(frames_seen + 1), 2, 4, <<>>)}
    ELSE Frames

MoreFrames ==
    frames_seen < (IF feed = "steady" THEN ChannelCapacity + MaxBacklog
                   ELSE MaxFrames)

CountsOffered == IF feed = "steady" THEN {4} ELSE Counts
OutcomesOffered == IF feed = "steady" THEN {"Ok"} ELSE {"Ok", "Err"}

\* ------------------------------------------------------------ the closure
\* *num of the header being processed (main.rs 78).
Num == ParseNumber(header.number).val

ClientMsg(num, max_rows, max_cols) ==
    [num |-> num, max_rows |-> max_rows, max_cols |-> max_cols]

\* HashMap::insert on the store, a set of (block, count) entries.
\* Variant: an entry that exists is kept.
or_insert(d, k, v) ==
    IF \E e \in d : e.num = k THEN d ELSE d \cup {[num |-> k, count |-> v]}

insert(d, k, v) ==
    {e \in d : e.num # k} \cup {[num |-> k, count |-> v]}

\* The process runs until main panics or returns.
Running == stage \notin {"panicked", "finished"}

\* StreamExt::for_each polls the stream for the next item only when the
\* future of the previous item has completed.
\* Variant: the next item is taken while the previous one waits to send.
CanTakeNextWhileSending == stage \in {"idle", "send"}

CanTakeNext == stage = "idle"

\* message.unwrap(), serde_json::from_slice and the block number
\* (main.rs 70-82).
recv_message ==
    /\ CanTakeNext /\ MoreFrames
    /\ \E f \in FramesOffered :
          /\ header' = f
          /\ CASE f.kind = "ws_error" ->
                    stage' = "panicked" /\ steps' = <<"message.unwrap">>
               [] f.kind = "not_header" ->
                    stage' = "idle" /\ steps' = <<"discarded">>
               [] OTHER ->
                    IF IsOk(ParseNumber(f.number))
                    THEN stage' = "get_kate_proof" /\ steps' = <<>>
                    ELSE stage' = "panicked" /\ steps' = <<"z.unwrap">>
    /\ frames_seen' = frames_seen + 1
    /\ count' = 0 /\ conf' = <<>>
    /\ UNCHANGED <<clientVars, envVars, codecVars,
                   db, block_queue, block_rx, delivered>>

\* .unwrap() of the cells get_kate_proof(.., false) returns (main.rs 85-88).
\* Variant: an error is taken as no cells.
unwrap_or_default(outcome) == "verify_proof"

unwrap(outcome) == IF outcome = "Ok" THEN "verify_proof" ELSE "panicked"

get_kate_proof ==
    /\ stage = "get_kate_proof"
    /\ \E outcome \in OutcomesOffered :
          /\ stage' = unwrap(outcome)
          /\ steps' = Append(steps, IF outcome = "Ok" THEN "fetch"
                                    ELSE "fetch_err")
    /\ UNCHANGED <<clientVars, envVars, codecVars, header, count, conf,
                   db, block_queue, block_rx, frames_seen, delivered>>

\* proof::verify_proof(max_rows, max_cols, &cells, &commitment) (main.rs 92).
verify_proof ==
    /\ stage = "verify_proof"
    /\ \E c \in CountsOffered : count' = c
    /\ steps' = Append(steps, "verify")
    /\ stage' = "store"
    /\ UNCHANGED <<clientVars, envVars, codecVars, header, conf,
                   db, block_queue, block_rx, frames_seen, delivered>>

\* if !app_index.is_empty() { if conf > 92.0 && req_id > 0 {
\* (main.rs 113-115).
\* Variant: the confidence is not looked at.
DeepVerificationForAnyConfidence(app_index, c, req_id) ==
    app_index # <<>> /\ req_id > 0

DeepVerification(app_index, c, req_id) ==
    app_index # <<>> /\ F64Greater(c, 92) /\ req_id > 0

\* calculate_confidence, serialised_confidence (printed only) and the
\* store's insert (main.rs 98-115).
store_confidence ==
    /\ stage = "store"
    /\ LET r == calculate_confidence(count)
       IN IF r = Panicked
          THEN /\ stage' = "panicked"
               /\ steps' = Append(steps, "pow_overflow")
               /\ UNCHANGED <<conf, db>>
          ELSE /\ conf' = r
               /\ db' = insert(db, Num, count)
               /\ steps' = Append(steps, "store")
               /\ stage' = IF DeepVerification(header.app_index, r, app_id)
                           THEN "get_kate_proof_full" ELSE "send"
    /\ UNCHANGED <<clientVars, envVars, codecVars, header, count,
                   block_queue, block_rx, frames_seen, delivered>>

\* get_kate_proof(.., true).await.unwrap() (main.rs 116-119).
get_kate_proof_full ==
    /\ stage = "get_kate_proof_full"
    /\ \E outcome \in OutcomesOffered :
          IF outcome = "Ok"
          THEN stage' = "verify_proof_full" /\ steps' = Append(steps, "deep_fetch")
          ELSE stage' = "panicked" /\ steps' = Append(steps, "deep_fetch_err")
    /\ UNCHANGED <<clientVars, envVars, codecVars, header, count, conf,
                   db, block_queue, block_rx, frames_seen, delivered>>

\* The count of the deep verification is printed and dropped
\* (main.rs 122-127).
verify_proof_full ==
    /\ stage = "verify_proof_full"
    /\ steps' = Append(steps, "deep_verify")
    /\ stage' = "send"
    /\ UNCHANGED <<clientVars, envVars, codecVars, header, count, conf,
                   db, block_queue, block_rx, frames_seen, delivered>>

\* SyncSender::send blocks while the buffer holds ChannelCapacity messages.
\* Variant: a channel without bound.
HasRoomUnbounded(q) == TRUE

HasRoom(q) == Len(q) < ChannelCapacity

\* block_tx.send(types::ClientMsg { .. }).unwrap() (main.rs 133-139).
block_tx_send ==
    /\ stage = "send"
    /\ IF block_rx
       THEN /\ HasRoom(block_queue)
            /\ block_queue' = Append(block_queue,
                                     ClientMsg(Num, header.rows, header.cols))
            /\ steps' = Append(steps, "send")
            /\ stage' = "idle"
       ELSE /\ stage' = "panicked"
            /\ steps' = Append(steps, "send_err")
            /\ UNCHANGED block_queue
    /\ UNCHANGED <<clientVars, envVars, codecVars, header, count, conf,
                   db, block_rx, frames_seen, delivered>>

\* The stream ends: read_future.await returns and destroy_tx.send(true)
\* .unwrap() tells the client thread (main.rs 145-148).
stream_end ==
    /\ CanTakeNext
    /\ stage' = IF block_rx THEN "finished" ELSE "panicked"
    /\ UNCHANGED <<clientVars, envVars, codecVars, header, count, conf, db,
                   block_queue, block_rx, frames_seen, steps, delivered>>

\* ---- the reconstruction client thread (client::run_client)
consumer_recv ==
    /\ Running /\ block_rx /\ block_queue # <<>>
    /\ delivered' = Append(delivered, Head(block_queue))
    /\ block_queue' = Tail(block_queue)
    /\ UNCHANGED <<clientVars, envVars, codecVars, stage, header, count,
                   conf, db, block_rx, frames_seen, steps>>

consumer_exit ==
    /\ Running /\ block_rx
    /\ block_rx' = FALSE
    /\ UNCHANGED <<clientVars, envVars, codecVars, stage, header, count,
                   conf, db, block_queue, frames_seen, steps, delivered>>

InitPipeline ==
    /\ ClientAtRest
    /\ CodecAtRest
    /\ feed \in {"mixed", "steady"}
    /\ app_id \in {0, 1}
    /\ overflow_checks \in BOOLEAN
    /\ feed = "steady" => app_id = 0 /\ overflow_checks
    /\ PipeAtRest

NextPipeline ==
    \/ recv_message
    \/ get_kate_proof
    \/ verify_proof
    \/ store_confidence
    \/ get_kate_proof_full
    \/ verify_proof_full
    \/ block_tx_send
    \/ stream_end
    \/ consumer_recv
    \/ consumer_exit

SpecPipeline == InitPipeline /\ [][NextPipeline]_vars

\* ------------------------------------------- batch calls under fairness
\* One call of fetch_cells_from_dht or insert_into_dht with a limit of at
\* least 1, beside an event loop that stays alive.
InitLive ==
    /\ MainAtRest
    /\ op \in {"fetch_cells_from_dht", "insert_into_dht"}
    /\ dht_parallelization_limit \in 1..MaxLimit
    /\ capacity \in 1..MaxCapacity
    /\ positions \in InputLists
    /\ ClientNew

NextLive ==
    \/ fetch_cells_from_dht
    \/ \E i \in SubIds : get_kad_record(i)
    \/ join_all
    \/ insert_into_dht
    \/ \E i \in SubIds : put_kad_record(i)
    \/ insert_into_dht_return
    \/ \E i \in SubIds : send_resume(i)
    \/ \E i \in SubIds : receiver_await(i)
    \/ event_loop_recv
    \/ \E i \in SubIds : event_loop_reply(i)
    \/ \E i \in SubIds : event_loop_drop_sender(i)

\* The executor polls every future that can go on; the event loop keeps
\* taking commands from the queue, and answers each command it holds or
\* drops its reply sender.
FairLive ==
    /\ WF_vars(fetch_cells_from_dht)
    /\ WF_vars(join_all)
    /\ WF_vars(insert_into_dht)
    /\ WF_vars(insert_into_dht_return)
    /\ \A i \in SubIds :
          /\ WF_vars(get_kad_record(i))
          /\ WF_vars(put_kad_record(i))
          /\ WF_vars(send_resume(i))
          /\ WF_vars(receiver_await(i))
          /\ WF_vars(event_loop_reply(i) \/ event_loop_drop_sender(i))
    /\ WF_vars(event_loop_recv)

SpecLive == InitLive /\ [][NextLive]_vars /\ FairLive

\* ================================================================ claims
Range(s) == {s[k] : k \in DOMAIN s}
Distinct(s) == \A a, b \in DOMAIN s : a # b => s[a] # s[b]
PositionsOf(cs) == [k \in DOMAIN cs |-> cs[k].position]
SentIds == {sent[k].id : k \in DOMAIN sent}

\* What the event loop answered to the GetKadRecord of position i.
ZeroRecords(i) == reply[i].tag = "Ok" /\ reply[i].val = <<>>
SomeRecords(i) == reply[i].tag = "Ok" /\ reply[i].val # <<>>
Malformed(i) == SomeRecords(i) /\ Head(reply[i].val) # COMMITMENT_SIZE + CHUNK_SIZE
AnsweredErr(i) == reply[i].tag = "Err"

\* The chunk a position index falls in, for a limit of at least 1.
ChunkOf(i) == (i - 1) \div dht_parallelization_limit + 1

FetchDone == op = "fetch_cells_from_dht" /\ pc = "done"

\* C1: when fetch_cells_from_dht returns Ok((fetched, unfetched)) on distinct
\* positions, a position is in unfetched exactly when its query returned zero
\* records, is the position of a fetched cell exactly when its query returned
\* at least one record, and fetched and unfetched together hold every input
\* position exactly once.
C1_FetchPartition ==
    (FetchDone /\ ret.tag = "Ok" /\ Distinct(positions)) =>
        LET f == PositionsOf(ret.fetched)
            u == ret.unfetched
        IN  /\ \A i \in 1..N :
                  /\ positions[i] \in Range(u) <=> ZeroRecords(i)
                  /\ positions[i] \in Range(f) <=> SomeRecords(i)
            /\ Len(f) + Len(u) = N
            /\ Distinct(f \o u)
            /\ Range(f \o u) = Range(positions)

C1_Witness ==
    /\ FetchDone /\ ret.tag = "Ok" /\ Distinct(positions)
    /\ chunk >= 2
    /\ Len(ret.fetched) >= 1 /\ Len(ret.unfetched) >= 1

\* C2: if the record used for some position has a value of another length than
\* COMMITMENT_SIZE + CHUNK_SIZE, the call returns an error (no fetched cells,
\* no unfetched positions, also not for the positions answered well), and no
\* query of a later chunk is ever issued.
C2_MalformedAborts ==
    op = "fetch_cells_from_dht" =>
        \A i \in 1..N :
            (Malformed(i) /\ sub[i] = "done") =>
                /\ pc = "done" => IsErr(ret)
                /\ \A j \in 1..N :
                      ChunkOf(j) > ChunkOf(i) => sub[j] = "idle" /\ j \notin SentIds

C2_Witness ==
    /\ FetchDone /\ IsErr(ret) /\ ret.kind = "convert"
    /\ \E i, j, k \in 1..N :
          /\ Malformed(i) /\ sub[i] = "done"
          /\ SomeRecords(j) /\ ~Malformed(j) /\ sub[j] = "done"
          /\ ChunkOf(k) > ChunkOf(i) /\ sub[k] = "idle"

\* C3: a GetKadRecord answered with an error is soft: its position is placed
\* in unfetched, the batch goes on and the call returns Ok.
C3_GetErrorIsSoft ==
    (/\ FetchDone
     /\ \E i \in 1..N : AnsweredErr(i) /\ sub[i] = "done"
     /\ \A i \in 1..N : ~Malformed(i) /\ reply[i].tag # "Dropped"
     /\ ~closed) =>
        /\ ret.tag = "Ok"
        /\ \A i \in 1..N : AnsweredErr(i) => positions[i] \in Range(ret.unfetched)

\* C4: the positions are queried in consecutive chunks of at most L; no
\* query of a later chunk is started before every query of the earlier chunks
\* has returned, so at most L queries are in flight at any moment.
C4_ChunkedFanOut ==
    (op = "fetch_cells_from_dht" /\ dht_parallelization_limit > 0) =>
        /\ Cardinality(InFlight) <= dht_parallelization_limit
        /\ \A i, j \in 1..N :
              (ChunkOf(i) < ChunkOf(j) /\ sub[j] # "idle") => sub[i] = "done"
        /\ \A i \in handling \cup {queue[k].id : k \in DOMAIN queue} :
              i \in InFlight
        /\ \A a, b \in DOMAIN sent : a < b => sent[a].id < sent[b].id

C4_Witness ==
    /\ op = "fetch_cells_from_dht"
    /\ dht_parallelization_limit >= 2
    /\ Cardinality(InFlight) = dht_parallelization_limit
    /\ \A i \in InFlight : ChunkOf(i) >= 2

InsertDone == op = "insert_into_dht" /\ pc = "done"

\* What happened to sub-operation i on the channels: its command was never
\* accepted (the receiver was gone), or its reply sender was dropped.
SendFailed(i) == sub[i] = "done" /\ i \notin SentIds
ReplyDropped(i) == sub[i] = "done" /\ reply[i].tag = "Dropped"

\* The PutKadRecord operations of the call that ended in an error.
FailedPuts ==
    {i \in 1..N : SendFailed(i) \/ ReplyDropped(i)
                     \/ (sub[i] = "done" /\ AnsweredErr(i))}

\* C5: insert_into_dht returns exactly 1.0 for an empty list and otherwise
\* 1 - F/T, T the number of cells and F the number of puts that ended in an
\* error, whatever the order the puts complete in: 0.0 when all fail, 1.0
\* when none fails, always within [0, 1].
C5_SuccessRate ==
    InsertDone =>
        IF N = 0 THEN ret = F32One
        ELSE LET F == Cardinality(FailedPuts)
             IN  /\ ret.tag = "f32"
                 /\ ret.den > 0
                 /\ ret.num * N = (N - F) * ret.den
                 /\ 0 <= ret.num /\ ret.num <= ret.den
                 /\ F = N => ret.num = 0
                 /\ F = 0 => ret.num = ret.den

C5_Witness ==
    /\ InsertDone /\ N >= 3
    /\ Cardinality(FailedPuts) >= 1
    /\ Cardinality(FailedPuts) < N
    /\ \E i, j \in FailedPuts : AnsweredErr(i) /\ SendFailed(j)

\* C6: insert_into_dht completes the batch for all cells: one PutKadRecord per
\* input cell (none for an empty list), a failed put is never retried and
\* never stops the puts of the remaining cells, and nothing but puts is sent
\* (no rollback).
C6_OnePutPerCell ==
    op = "insert_into_dht" =>
        /\ \A a, b \in DOMAIN sent : a # b => sent[a].id # sent[b].id
        /\ \A k \in DOMAIN sent :
              sent[k].type = "PutKadRecord" /\ sent[k].id \in 1..N
        /\ pc = "done" =>
              \A i \in 1..N : sub[i] = "done" /\ (i \in SentIds \/ closed)
        /\ ~closed => \A i \in 1..N : sub[i] \in {"waiting", "done"} => i \in SentIds

C6_Witness ==
    /\ InsertDone /\ N >= 3 /\ ~closed
    /\ AnsweredErr(1) /\ reply[2].tag = "Dropped"
    /\ \A i \in 3..N : reply[i].tag = "Ok"

\* C7 as stated: with limit L, at most L PutKadRecord operations are ever in
\* flight.
C7_AtMostLimitInFlight ==
    op = "insert_into_dht" =>
        Cardinality(InFlight) <= dht_parallelization_limit

\* C7 amended: with a limit L of at least 1, at most L puts are in flight;
\* and whenever fewer than L are in flight (or L is 0, which means no limit)
\* while cells are pending, the next put can start at once, whatever the
\* other puts in flight are doing.
C7_WorkerPool ==
    op = "insert_into_dht" =>
        /\ dht_parallelization_limit >= 1 =>
              Cardinality(InFlight) <= dht_parallelization_limit
        /\ (/\ pc = "for_each"
            /\ \E i \in SubIds : NextOfStream(i)
            /\ \/ dht_parallelization_limit = 0
               \/ Cardinality(InFlight) < dht_parallelization_limit) =>
              ENABLED (\E i \in SubIds : put_kad_record(i))

C7_Witness ==
    /\ op = "insert_into_dht"
    /\ dht_parallelization_limit = 2
    /\ sub[1] \in {"sending", "waiting"}
    /\ sub[2] = "done"
    /\ sub[3] \in {"sending", "waiting"}

ChannelFailure == \E i \in SubIds : SendFailed(i) \/ ReplyDropped(i)
CallEnded == pc \in {"done", "panicked"}

\* C8 as stated: a command-channel failure is reported to the caller of every
\* Client operation as an error (or a panic), never hidden in a normal result.
C8_ChannelFailureSurfaced ==
    (ChannelFailure /\ CallEnded) => ret.tag \in {"Err", "Panic"}

\* C8 amended: a command-channel failure makes start_listening, add_address,
\* bootstrap and fetch_cells_from_dht return an error and events_stream
\* panic; insert_into_dht reports no error: it counts the put as failed and
\* returns a success rate below 1.
C8_ChannelFailureByOperation ==
    (ChannelFailure /\ CallEnded) =>
        CASE op \in {"start_listening", "add_address", "bootstrap",
                     "fetch_cells_from_dht"} -> pc = "done" /\ IsErr(ret)
          [] op = "events_stream" -> pc = "panicked" /\ ret = Panicked
          [] op = "insert_into_dht" ->
                /\ pc = "done" /\ ret.tag = "f32"
                /\ ret.num < ret.den
                /\ ret.num <= N - Cardinality({i \in 1..N :
                                    SendFailed(i) \/ ReplyDropped(i)})

C8_Witness ==
    /\ op = "fetch_cells_from_dht" /\ pc = "done"
    /\ \E i, j \in 1..N : ReplyDropped(i) /\ SomeRecords(j) /\ ~Malformed(j)
    /\ IsErr(ret) /\ ret.kind = "recv"

\* C9: the command queue never holds more than `capacity` commands; a
\* submission that finds a free slot and nobody suspended ahead is enqueued,
\* one that finds the queue full suspends its caller and is enqueued only
\* once a slot is free; the queue changes only by a command appended at its
\* tail or taken from its head (nothing is dropped or reordered while the
\* receiver lives), and commands are enqueued in the order submitted.
C9_Backpressure ==
    [][/\ Len(queue') <= capacity
       /\ queue' # queue =>
             \/ ~closed /\ queue # <<>> /\ queue' = Tail(queue)
                   /\ \A i \in SubIds : sub'[i] = sub[i]
             \/ ~closed /\ closed' /\ queue' = <<>>
             \/ /\ ~closed /\ Len(queue) < capacity
                /\ \E i \in SubIds :
                      /\ queue' = Append(queue, Command(i))
                      /\ sub[i] \in {"idle", "sending"}
                      /\ sub'[i] \in {"waiting", "done"}
       /\ \A i \in SubIds :
             (sub[i] = "idle" /\ sub'[i] # "idle" /\ ~closed) =>
                 IF Len(queue) < capacity /\ waiters = <<>>
                 THEN queue' = Append(queue, Command(i))
                 ELSE /\ sub'[i] = "sending" /\ queue' = queue
                      /\ waiters' = Append(waiters, i)
       /\ \A i \in SubIds :
             (sub[i] = "sending" /\ sub'[i] # "sending" /\ ~closed) =>
                 /\ Len(queue) < capacity
                 /\ Head(waiters) = i
                 /\ queue' = Append(queue, Command(i))
      ]_vars

C9_Witness ==
    /\ ~closed
    /\ Len(queue) = capacity /\ capacity >= 2
    /\ Len(sent) = capacity /\ handling = {}
    /\ Len(waiters) >= 1

\* C10: when fetch_cells_from_dht or insert_into_dht returns, with a result
\* or with an error, every sub-operation it started has returned and none of
\* its commands is still queued or held by it; none is started afterwards.
C10_ForkJoin ==
    [][(op \in {"fetch_cells_from_dht", "insert_into_dht"} /\ pc' = "done") =>
          /\ \A i \in SubIds : sub'[i] \in {"idle", "done"}
          /\ waiters' = <<>>
          /\ \A i \in handling' \cup {queue'[k].id : k \in DOMAIN queue'} :
                sub'[i] = "idle"
          /\ pc = "done" => sub' = sub
      ]_vars

C10_Witness ==
    /\ op = "fetch_cells_from_dht" /\ pc = "done"
    /\ IsErr(ret) /\ ret.kind = "convert"
    /\ \E i, j \in 1..N :
          /\ i < j /\ ChunkOf(i) = ChunkOf(j)
          /\ Malformed(i) /\ sub[j] = "done" /\ reply[j].tag = "Ok"

\* What the event loop did with the command of sub-operation i.
AnsweredOk(i) == sub[i] = "done" /\ reply[i].tag = "Ok"
Failed(i) == SendFailed(i) \/ ReplyDropped(i) \/ (sub[i] = "done" /\ AnsweredErr(i))

\* C11: bootstrap sends the Bootstrap command only after an AddAddress for
\* every peer of the list has been sent and answered Ok, in list order; if an
\* AddAddress fails, bootstrap returns that error and sends no Bootstrap; if
\* the Bootstrap query is answered with an error, bootstrap returns an error.
C11_BootstrapAfterAddresses ==
    op = "bootstrap" =>
        /\ \A k \in DOMAIN sent :
              /\ sent[k].id = k
              /\ sent[k].type = IF k <= N THEN "AddAddress" ELSE "Bootstrap"
              /\ \A j \in 1..(k - 1) : AnsweredOk(j)
        /\ sub[N + 1] # "idle" => \A j \in 1..N : AnsweredOk(j)
        /\ \A i \in 1..N :
              Failed(i) =>
                  /\ pc = "done" /\ IsErr(ret) /\ ret = res[i]
                  /\ AnsweredErr(i) => ret = reply[i]
                  /\ \A j \in (i + 1)..(N + 1) : sub[j] = "idle" /\ j \notin SentIds
        /\ Failed(N + 1) => pc = "done" /\ IsErr(ret)
        /\ (pc = "done" /\ IsOk(ret)) => \A j \in 1..(N + 1) : AnsweredOk(j)

C11_Witness ==
    /\ op = "bootstrap" /\ pc = "done" /\ IsOk(ret)
    /\ N >= 3 /\ Len(sent) = N + 1

\* 100 * (1 - 2^(-c)) as an exact fraction.
Confidence(c) == Finite(BigMulSmall(BigSub(Pow2(c), <<1>>), 100), c)

\* C16: calculate_confidence(count) = 100 * (1 - 2^(-count)) for every u32
\* count: it is 0 for count 0, strictly increasing in count, at least 0 and
\* strictly below 100, and 96.875 for count 5.
C16_ConfidenceFormula ==
    codec_pc # "calculate_confidence" =>
        /\ codec_pc # "panicked"
        /\ factor = Confidence(verified)
        /\ ~F64Less(factor, Finite(<<>>, 0))
        /\ F64Less(factor, Finite(<<100>>, 0))
        /\ verified = 0 => factor.m = <<>>
        /\ verified = 5 => factor = Finite(FromNat(3100), 5)
        /\ \A c \in 0..(verified - 1) :
              /\ calculate_confidence(c) # Panicked
              /\ F64Less(calculate_confidence(c), factor)

\* The same below the overflow of 2u32.pow(count).
C16_BelowOverflow == verified < 32 => C16_ConfidenceFormula

\* floor(100 * (1 - 2^(-c)) * 10^7) = 10^9 - ceil(10^9 / 2^c), in machine
\* integers (10^9 / 2^c < 1 from c = 30 on).
FloorScaled(c) ==
    IF c >= 30 THEN 1000000000 - 1
    ELSE 1000000000
             - ((1000000000 + Pow2Small(c) - 1) \div Pow2Small(c))

\* C17: for every u64 block number and every value v of the confidence
\* formula, the decimal string of serialised_confidence(block, v), parsed and
\* shifted right by 32, is the block number, and its low 32 bits are
\* floor(v * 10^7); the scaled factor stays below 2^32 and below the
\* saturation of the cast to u64.
C17_RoundTrip ==
    codec_pc = "done" =>
        /\ decoded.block = block
        /\ BigLess(ScaledFactor(factor), Pow2(32))
        /\ factor.tag = "finite" =>
              /\ factor = Confidence(verified)
              /\ decoded.factor = FromNat(FloorScaled(verified))
        /\ DOMAIN serialised = 1..Len(serialised) /\ Len(serialised) >= 1
        /\ \A k \in DOMAIN serialised :
              \E d \in 1..10 : serialised[k] = DecimalDigits[d]

C17_Witness ==
    /\ codec_pc = "done" /\ block = U64Max /\ verified = 31
    /\ decoded.factor = FromNat(999999999)
    /\ Len(serialised) = 29

\* ------------------------------------------------- claims about main.rs
Last(s) == s[Len(s)]
IsPrefix(s, t) == Len(s) <= Len(t) /\ SubSeq(t, 1, Len(s)) = s

\* Every ClientMsg the pipeline has sent, in the order of the sends.
Sent == delivered \o block_queue

\* The stages of one header, in the order of main.rs 85-139.
StageOrders ==
    {<<"fetch", "verify", "store", "send">>,
     <<"fetch", "verify", "store", "deep_fetch", "deep_verify", "send">>}

Failures ==
    {"message.unwrap", "z.unwrap", "fetch_err", "pow_overflow",
     "deep_fetch_err", "send_err"}

\* The stages done for the current header, a failure at the end left out.
StagesDone ==
    IF steps # <<>> /\ Last(steps) \in Failures
    THEN SubSeq(steps, 1, Len(steps) - 1)
    ELSE steps

\* The current header needs nothing more: it was discarded, or its ClientMsg
\* has been accepted by the channel.
HeaderFinished ==
    \/ frames_seen = 0
    \/ steps = <<"discarded">>
    \/ /\ steps # <<>> /\ Last(steps) = "send"
       /\ Sent # <<>>
       /\ Last(Sent) = ClientMsg(Num, header.rows, header.cols)

\* C12: for each header the sample fetch precedes the verification, which
\* precedes the store's upsert, which precedes the send of the ClientMsg; and
\* no frame of the stream is taken before the processing of the current
\* header has finished (ClientMsg accepted by the channel, or discarded).
C12_SequentialInStageOrder ==
    [][/\ frames_seen' # frames_seen => stage = "idle" /\ HeaderFinished
       /\ \/ steps' = <<"discarded">>
          \/ \E o \in StageOrders : IsPrefix(StagesDone', o)
       /\ count' # count /\ frames_seen' = frames_seen =>
             Last(steps) = "fetch" /\ Last(steps') = "verify"
       /\ db' # db =>
             /\ steps = <<"fetch", "verify">> /\ Last(steps') = "store"
             /\ [num |-> Num, count |-> count] \in db'
       /\ Sent' # Sent =>
             LET b == Num
             IN /\ "store" \in Range(steps) /\ Last(steps') = "send"
                /\ Sent' = Append(Sent, ClientMsg(b, header.rows, header.cols))
                /\ [num |-> b, count |-> count] \in db
      ]_vars

C12_Witness ==
    /\ feed = "mixed" /\ frames_seen = 2 /\ stage = "store"
    /\ Len(Sent) = 1 /\ Cardinality(db) = 1

\* A block number string that is no hexadecimal number after the 0x prefix.
NotHexadecimal(number) ==
    LET digits == trim_start_matches_0x(number)
    IN digits = <<>> \/ \E k \in DOMAIN digits : ToDigit16(digits[k]) = 16

\* C13: a frame that fails to parse (no header structure, or a block number
\* that is no hexadecimal number after the 0x prefix) is logged and
\* discarded, and the loop goes on: the closure has completed without a
\* panic of its own.
C13_MalformedHeaderNotFatal ==
    (/\ frames_seen > 0
     /\ \/ header.kind = "not_header"
        \/ header.kind = "header" /\ NotHexadecimal(header.number)) =>
        /\ steps = <<"discarded">>
        /\ stage = "panicked" => ~block_rx

\* The part of C13 the code keeps: a frame that is no header structure.
C13_NotAHeaderIsDiscarded ==
    (frames_seen > 0 /\ header.kind = "not_header") =>
        /\ steps = <<"discarded">>
        /\ stage = "panicked" => ~block_rx

C15_FetchFailureAborts ==
    [][/\ "fetch_err" \in Range(steps') =>
             /\ steps' = <<"fetch_err">>
             /\ stage' = "panicked"
             /\ db' = db
             /\ Sent' = Sent
       /\ db' # db => "fetch" \in Range(steps)
       /\ Sent' # Sent => "fetch" \in Range(steps)
      ]_vars

C15_Witness ==
    /\ stage = "panicked" /\ steps = <<"fetch_err">>
    /\ frames_seen = 2 /\ Cardinality(db) = 1 /\ Len(Sent) = 1

\* C18: the channel never holds more than 128 ClientMsg; while it holds 128
\* the pipeline's send is blocked: no message is dropped or overwritten and
\* no further frame is taken until the consumer takes a message, and then
\* the blocked message is appended; the consumer receives the messages in
\* the order the blocks were processed.
C18_BoundedChannel ==
    [][/\ Len(block_queue) <= ChannelCapacity
       /\ Len(block_queue') <= ChannelCapacity
       /\ (stage = "send" /\ block_rx /\ Len(block_queue) = ChannelCapacity) =>
             /\ stage' = "send" /\ frames_seen' = frames_seen
             /\ header' = header /\ db' = db
             /\ Sent' = Sent
             /\ \/ block_rx' = FALSE /\ block_queue' = block_queue
                \/ block_rx' /\ block_queue' = Tail(block_queue)
       /\ (stage = "send" /\ stage' = "idle") =>
             /\ block_queue' = Append(block_queue,
                                      ClientMsg(Num, header.rows, header.cols))
             /\ delivered' = delivered
       /\ Sent' # Sent => stage = "send" /\ stage' = "idle"
       /\ delivered' # delivered =>
             /\ delivered' = Append(delivered, Head(block_queue))
             /\ block_queue' = Tail(block_queue)
       /\ feed = "steady" => \A k \in DOMAIN Sent : ToNat(Sent[k].num) = k
      ]_vars

C18_Witness ==
    /\ stage = "send" /\ block_rx
    /\ Len(block_queue) = ChannelCapacity /\ Len(delivered) = 1
    /\ frames_seen = ChannelCapacity + 2

\* The deep verification of the current header has started.
DeepRuns ==
    \/ stage \in {"get_kate_proof_full", "verify_proof_full"}
    \/ "deep_fetch" \in Range(steps)
    \/ "deep_fetch_err" \in Range(steps)

\* C19: the deep verification runs only when the app-data index of the
\* header is not empty, the confidence is above 92.0 and the configured
\* application id is positive; its steps change neither the store nor what
\* has been sent, and after it has completed the store's entry for the block is
\* the main-path count and the ClientMsg sent is ClientMsg{b, rows, cols}.
C19_DeepVerificationObservational ==
    [][/\ DeepRuns =>
             /\ header.app_index # <<>> /\ app_id > 0
             /\ conf = Confidence(count) /\ F64Greater(conf, 92)
             /\ [num |-> Num, count |-> count] \in db
       /\ stage \in {"get_kate_proof_full", "verify_proof_full"} =>
             /\ db' = db /\ Sent' = Sent
             /\ count' = count /\ conf' = conf /\ header' = header
       /\ (DeepRuns /\ Last(steps) = "send") =>
             /\ "deep_verify" \in Range(steps)
             /\ Last(Sent) = ClientMsg(Num, header.rows, header.cols)
      ]_vars

C19_Witness ==
    /\ stage = "idle" /\ steps # <<>> /\ Last(steps) = "send"
    /\ "deep_verify" \in Range(steps)
    /\ db = {[num |-> <<2>>, count |-> 4]}

\* C20: beside an event loop that keeps taking the commands from the queue
\* and answers each of them or drops its reply sender, every call of
\* fetch_cells_from_dht and of insert_into_dht returns, for every limit of at
\* least 1 and every capacity of at least 1, the limit above the capacity
\* included.
C20_BatchCallsReturn == <>(pc = "done")

C20_Witness ==
    /\ pc = "done" /\ N >= 3
    /\ dht_parallelization_limit > capacity
    /\ Len(sent) = N

====
